---- MODULE Spec2Model ----
(***************************************************************************)
(* Model of the batch-witness queue (package witness, src/src/utils/db.go):*)
(* the witness table, the row locks and uncommitted writes of the store's  *)
(* transactions, and the claim operations                                  *)
(* GetAndUpdateBatchesWitnessByStatus (ClaimBatch) and                     *)
(* GetAndUpdateBatchesWitnessByHeight (ClaimByHeight), one action per      *)
(* statement a call sends to the store.                                    *)
(*                                                                         *)
(* Store semantics (MySQL/InnoDB, default isolation): a locking read       *)
(* (SELECT ... FOR UPDATE) and an UPDATE read the latest committed row and *)
(* take its exclusive lock, waiting while another transaction holds it; a  *)
(* plain SELECT takes no lock and reads committed data; locks are held and *)
(* writes stay private until COMMIT or ROLLBACK.                           *)
(***************************************************************************)
EXTENDS Integers, Sequences, FiniteSets, Bags, TLC

\* ------------------------------------------------------------- bounds
NWorkers == 2
MaxHeight == 3
MaxCount == 2
MaxReturned == 2
MaxClaimed == 3
MaxPayload == 2
MaxList == 2
MaxQueueHeight == 2
MaxQueueReturned == 1

\* ---------------------------------------------------------- constants
StatusPublished == 0
StatusReceived == 1
StatusFinished == 2

Stages == {StatusPublished, StatusReceived, StatusFinished}
\* status is a BIGINT column and an int64 argument: a value that is no stage.
BadStatus == StatusFinished + 1
Statuses == Stages \cup {BadStatus}
Payloads == 1..MaxPayload
Workers == 1..NWorkers
Heights == 1..MaxHeight
\* No status: a row the transaction has not written.
NoStatus == StatusPublished - 1

VARIABLES
  table,     \* height -> committed row [present, deleted, status, payload, extra]
  table0,    \* the table as it was when the workers started (never changes)
  lock,      \* height -> worker whose transaction holds the row lock, 0 if none
  pend,      \* height -> status written by the lock holder, not yet committed
  call,      \* worker -> the claim call it is running
  returned   \* bag of the results handed to callers with a nil error

vars == <<table, table0, lock, pend, call, returned>>

\* A row of the table. height is UNIQUE, so the table is keyed by height;
\* extra counts the further rows an insert has added at the same height
\* (none, while the UNIQUE constraint is enforced).
BatchWitness ==
  [present : BOOLEAN, deleted : BOOLEAN, status : Stages,
   payload : 0..MaxPayload, extra : {0}]

AbsentRow ==
  [present |-> FALSE, deleted |-> FALSE, status |-> StatusPublished,
   payload |-> 0, extra |-> 0]

Rows == {r \in BatchWitness : IF r.present THEN r.payload = 1 ELSE r = AbsentRow}

\* A worker's call: op "status" (ClaimBatch) or "height" (ClaimByHeight);
\* pc "idle", "rows" (select under way), "exec" (update loop), "commit",
\* "rollback"; the arguments before, after, count, height; cursor, the height
\* the locking scan has reached; sel, the witnesses list; next, the index of
\* the update loop; err, the error to return; rowsErr, rows.Err() # nil;
\* prior, the heights ClaimBatch calls for the same transition had already
\* returned when the call began.
\* The other operations: op "create" (Enqueue), "update" (UpdateStatus),
\* "get" (GetByHeight), "list" (ListHeightsByStatus), "counts"
\* (GetStageCounts); pc "insert" (insert loop), "count" (count queries),
\* "done" (about to return err and out); left, the records of the list not
\* yet read; ins, the heights inserted; height, the height an insert was
\* refused for; after, the status UpdateStatus was given; out, the value to
\* return; snap, the table at the first count query; dirty, whether a later
\* count query found another table.
IdleCall ==
  [op |-> "none", pc |-> "idle", before |-> NoStatus, after |-> NoStatus,
   count |-> 0, height |-> 0, cursor |-> 1, sel |-> <<>>, next |-> 1,
   err |-> "nil", rowsErr |-> FALSE, prior |-> {},
   left |-> 0, ins |-> {}, out |-> <<>>, snap |-> <<>>,
   dirty |-> FALSE]

\* The (beforeStatus, afterStatus) pairs callers pass, and those of the
\* pipeline Published -> Received -> Finished.
Transitions == {t \in Stages \X Stages : t[1] # t[2]}
Pipeline == {t \in Transitions : t[2] = t[1] + 1}

\* ---------------------------------------------------------- statements

\* WHERE status = ? AND deleted_at IS NULL
\* (MatchesNoDeletedFilter: the statement without its deleted_at condition.)
MatchesNoDeletedFilter(r, b) == r.present /\ r.status = b
Matches(r, b) == r.present /\ ~r.deleted /\ r.status = b

\* ORDER BY height ASC: the next row from cursor c at which the locking
\* scan for status b stops, because the row matches or because another
\* transaction holds its lock (rows that are free and do not match are read
\* and passed over); 0 when the scan reaches the end of the table.
\* (NextRowDesc: the statement with ORDER BY height DESC; NextRowUnordered:
\* the statement without ORDER BY, the scan coming back to rows it passed.)
Stops(w, b, c) ==
  {h \in Heights : h >= c /\ table[h].present
                   /\ (Matches(table[h], b) \/ lock[h] \notin {0, w})}
NextRowUnordered(w, b, c) ==
  LET S == Stops(w, b, c)
      T == {h \in Stops(w, b, 1) : lock[h] # w}
  IN IF S # {} THEN CHOOSE h \in S : \A g \in S : h <= g
     ELSE IF T # {} THEN CHOOSE h \in T : \A g \in T : h <= g
     ELSE 0
NextRowDesc(w, b, c) ==
  LET S == Stops(w, b, c)
  IN IF S = {} THEN 0 ELSE CHOOSE h \in S : \A g \in S : g <= h
NextRow(w, b, c) ==
  LET S == Stops(w, b, c)
  IN IF S = {} THEN 0 ELSE CHOOSE h \in S : \A g \in S : h <= g

\* LIMIT ?
LimitReached(sel, k) == Len(sel) >= k

\* A statement of worker w that needs the exclusive lock of row h waits
\* while another transaction holds it.
\* (CanLockAlways: the select without FOR UPDATE semantics, no waiting.)
CanLockAlways(w, h) == TRUE
CanLock(w, h) == lock[h] \in {0, w}

\* rows.Scan into a BatchWitness: the record as read, status included; the
\* call's afterStatus a is not used.
\* (ScannedRecordAfter: the record re-read after the update.)
ScannedRecordAfter(h, a) == [height |-> h, status |-> a]
ScannedRecord(h, a) == [height |-> h, status |-> table[h].status]

\* if len(witnesses) == 0 { return nil, utils.DbErrNotFound }
\* (EmptyErrNone: the test left out; EmptyErrInverted: the test negated.)
EmptyErrNone(sel) == "nil"
EmptyErrInverted(sel) == IF Len(sel) # 0 THEN "DbErrNotFound" ELSE "nil"
EmptyErr(sel) == IF Len(sel) = 0 THEN "DbErrNotFound" ELSE "nil"

\* Where the call goes once the select is over: the early return with
\* DbErrNotFound (and the deferred Rollback), or the update loop, which
\* runs no statement for an empty witnesses list.
AfterSelect(c, sel) ==
  LET e == EmptyErr(sel)
  IN [c EXCEPT !.sel = sel,
               !.err = e,
               !.pc = IF e # "nil" THEN "rollback"
                      ELSE IF Len(sel) = 0 THEN "commit" ELSE "exec"]

\* The statuses a transaction's COMMIT makes visible.
\* (CommittedNoWhere: the UPDATE without its WHERE height = ? condition.)
CommittedNoWhere(w) ==
  [h \in Heights |->
     IF table[h].present /\ (\E g \in Heights : lock[g] = w /\ pend[g] # NoStatus)
       THEN [table[h] EXCEPT !.status = call[w].after]
       ELSE table[h]]
Committed(w) ==
  [h \in Heights |->
     IF lock[h] = w /\ pend[h] # NoStatus
       THEN [table[h] EXCEPT !.status = pend[h]]
       ELSE table[h]]

Released(w) == [h \in Heights |-> IF lock[h] = w THEN 0 ELSE lock[h]]
Discarded(w) == [h \in Heights |-> IF lock[h] = w THEN NoStatus ELSE pend[h]]

\* The records a call hands to its caller, each with the call it came from.
Result(c) ==
  SetToBag({[op |-> c.op, before |-> c.before, after |-> c.after,
             height |-> c.sel[i].height] : i \in 1..Len(c.sel)})

\* The heights ClaimBatch(b, a, _) calls have returned so far.
ReturnedByStatus(b, a) ==
  {h \in Heights :
     BagIn([op |-> "status", before |-> b, after |-> a, height |-> h], returned)}

\* -------------------------------------------------------------- Init
\* The producer creates rows at stage Published; a row may be soft-deleted.
InitialRows == {r \in Rows : r.status = StatusPublished}

Init ==
  /\ table \in [Heights -> InitialRows]
  /\ table0 = table
  /\ lock = [h \in Heights |-> 0]
  /\ pend = [h \in Heights |-> NoStatus]
  /\ call = [w \in Workers |-> IdleCall]
  /\ returned = EmptyBag

\* Rows at any stage: the table some time after the pipeline started.
StagedRows == {r \in Rows : r.deleted => r.status = StatusPublished}

InitStaged ==
  /\ table \in [Heights -> StagedRows]
  /\ table0 = table
  /\ lock = [h \in Heights |-> 0]
  /\ pend = [h \in Heights |-> NoStatus]
  /\ call = [w \in Workers |-> IdleCall]
  /\ returned = EmptyBag

\* ------------------------------------------------------------ actions

\* GetAndUpdateBatchesWitnessByStatus: BeginTransaction, and tx.Query sent.
BeginClaimByStatus(w, b, a, k) ==
  /\ call[w].pc = "idle"
  /\ call' = [call EXCEPT ![w] =
       [IdleCall EXCEPT !.op = "status", !.pc = "rows", !.before = b,
                        !.after = a, !.count = k,
                        !.prior = ReturnedByStatus(b, a)]]
  /\ UNCHANGED <<table, table0, lock, pend, returned>>

\* The locking read reaches a row another transaction holds: it waits there.
ScanWait(w) ==
  LET c == call[w]
      h == NextRow(w, c.before, c.cursor)
  IN /\ c.pc = "rows" /\ c.op = "status"
     /\ h # 0 /\ ~CanLock(w, h) /\ c.cursor < h
     /\ call' = [call EXCEPT ![w].cursor = h]
     /\ UNCHANGED <<table, table0, lock, pend, returned>>

\* The locking read locks and returns the next matching row; with LIMIT
\* reached the result set is complete.
ScanRow(w) ==
  LET c == call[w]
      h == NextRow(w, c.before, c.cursor)
      sel == Append(c.sel, ScannedRecord(h, c.after))
  IN /\ c.pc = "rows" /\ c.op = "status"
     /\ h # 0 /\ CanLock(w, h)
     /\ lock' = [lock EXCEPT ![h] = w]
     /\ call' = [call EXCEPT ![w] =
          IF LimitReached(sel, c.count)
            THEN AfterSelect(c, sel)
            ELSE [c EXCEPT !.sel = sel, !.cursor = h + 1]]
     /\ UNCHANGED <<table, table0, pend, returned>>

\* rows.Next() returns false at the end of the table.
ScanEnd(w) ==
  LET c == call[w]
  IN /\ c.pc = "rows" /\ c.op = "status"
     /\ NextRow(w, c.before, c.cursor) = 0
     /\ call' = [call EXCEPT ![w] = AfterSelect(c, c.sel)]
     /\ UNCHANGED <<table, table0, lock, pend, returned>>

\* GetAndUpdateBatchesWitnessByHeight: BeginTransaction.
BeginClaimByHeight(w, h, b, a) ==
  /\ call[w].pc = "idle"
  /\ call' = [call EXCEPT ![w] =
       [IdleCall EXCEPT !.op = "height", !.pc = "rows", !.before = b,
                        !.after = a, !.height = h,
                        !.prior = ReturnedByStatus(b, a)]]
  /\ UNCHANGED <<table, table0, lock, pend, returned>>

\* The select of ClaimByHeight has no FOR UPDATE: a plain read of the
\* committed row, which takes no lock and waits for none.
SelectByHeight(w) ==
  LET c == call[w]
      h == c.height
      sel == IF Matches(table[h], c.before)
               THEN <<ScannedRecord(h, c.after)>> ELSE <<>>
  IN /\ c.pc = "rows" /\ c.op = "height"
     /\ call' = [call EXCEPT ![w] = AfterSelect(c, sel)]
     /\ UNCHANGED <<table, table0, lock, pend, returned>>

\* UPDATE ... SET status = ? WHERE height = ?, for the next selected record.
ExecUpdate(w) ==
  LET c == call[w]
      h == c.sel[c.next].height
  IN /\ c.pc = "exec"
     /\ CanLock(w, h)
     /\ lock' = [lock EXCEPT ![h] = w]
     /\ pend' = [pend EXCEPT ![h] = c.after]
     /\ call' = [call EXCEPT ![w].next = c.next + 1,
                             ![w].pc = IF c.next = Len(c.sel) THEN "commit" ELSE "exec"]
     /\ UNCHANGED <<table, table0, returned>>

\* err == nil: tx.Commit(), and the records go to the caller.
Commit(w) ==
  /\ call[w].pc = "commit"
  /\ table' = Committed(w)
  /\ lock' = Released(w)
  /\ pend' = Discarded(w)
  /\ returned' = returned (+) Result(call[w])
  /\ call' = [call EXCEPT ![w] = IdleCall]
  /\ UNCHANGED table0

\* err != nil: tx.Rollback(), and the error goes to the caller.
Rollback(w) ==
  /\ call[w].pc = "rollback"
  /\ lock' = Released(w)
  /\ pend' = Discarded(w)
  /\ call' = [call EXCEPT ![w] = IdleCall]
  /\ UNCHANGED <<table, table0, returned>>

\* ------------------------------------------------- failures of the store

\* tx.Query returns an error: return nil, ConvertMysqlErrToDbErr(err).
QueryFail(w) ==
  LET c == call[w]
  IN /\ c.pc = "rows"
     /\ call' = [call EXCEPT ![w].pc = "rollback", ![w].err = "DbErr",
                             ![w].sel = <<>>]
     /\ UNCHANGED <<table, table0, lock, pend, returned>>

\* rows.Scan returns an error: return nil, err.
RowScanFail(w) ==
  LET c == call[w]
  IN /\ c.pc = "rows"
     /\ IF c.op = "status" THEN NextRow(w, c.before, c.cursor) # 0
                           ELSE Matches(table[c.height], c.before)
     /\ call' = [call EXCEPT ![w].pc = "rollback", ![w].err = "raw",
                             ![w].sel = <<>>]
     /\ UNCHANGED <<table, table0, lock, pend, returned>>

\* rows.Next() returns false because of an error; rows.Err() is not read,
\* and the call goes on with the records fetched so far.
RowsIterErr(w) ==
  LET c == call[w]
  IN /\ c.pc = "rows"
     /\ call' = [call EXCEPT ![w] = [AfterSelect(c, c.sel) EXCEPT !.rowsErr = TRUE]]
     /\ UNCHANGED <<table, table0, lock, pend, returned>>

\* tx.Exec returns an error: return nil, err.
ExecFail(w) ==
  LET c == call[w]
  IN /\ c.pc = "exec"
     /\ call' = [call EXCEPT ![w].pc = "rollback", ![w].err = "raw",
                             ![w].sel = <<>>]
     /\ UNCHANGED <<table, table0, lock, pend, returned>>

\* ------------------------------------------------------ specifications
Budget(n) == BagCardinality(returned) < n

\* The steps of a ClaimBatch call, and of either claim call.
StatusStep(w) ==
  \/ ScanWait(w)
  \/ ScanRow(w)
  \/ ScanEnd(w)
  \/ ExecUpdate(w)
  \/ Commit(w)
  \/ Rollback(w)

Step(w) ==
  \/ StatusStep(w)
  \/ SelectByHeight(w)

\* Workers call both claim operations with any arguments.
Next ==
  \E w \in Workers :
    \/ \E t \in Transitions, k \in 1..MaxCount :
         Budget(MaxReturned) /\ BeginClaimByStatus(w, t[1], t[2], k)
    \/ \E h \in Heights, t \in Transitions :
         Budget(MaxReturned) /\ BeginClaimByHeight(w, h, t[1], t[2])
    \/ Step(w)

Spec == Init /\ [][Next]_vars

\* Workers call both claim operations along the pipeline only.
NextFwd ==
  \E w \in Workers :
    \/ \E t \in Pipeline, k \in 1..MaxCount :
         Budget(MaxClaimed) /\ BeginClaimByStatus(w, t[1], t[2], k)
    \/ \E h \in Heights, t \in Pipeline :
         Budget(MaxClaimed) /\ BeginClaimByHeight(w, h, t[1], t[2])
    \/ Step(w)

SpecFwd == Init /\ [][NextFwd]_vars

\* Workers call both claim operations along the pipeline, and any statement
\* of a claim transaction may fail.
Fail(w) ==
  \/ QueryFail(w)
  \/ RowScanFail(w)
  \/ RowsIterErr(w)
  \/ ExecFail(w)

NextFault ==
  \E w \in Workers :
    \/ \E t \in Pipeline, k \in 1..MaxCount :
         Budget(MaxReturned) /\ BeginClaimByStatus(w, t[1], t[2], k)
    \/ \E h \in Heights, t \in Pipeline :
         Budget(MaxReturned) /\ BeginClaimByHeight(w, h, t[1], t[2])
    \/ Step(w)
    \/ Fail(w)

SpecFault == Init /\ [][NextFault]_vars

\* Workers call ClaimBatch only, all of them for the same transition:
\* no call for another transition is running or has returned records.
OneTransition(b, a) ==
  /\ \A v \in Workers :
       call[v].pc # "idle" => call[v].before = b /\ call[v].after = a
  /\ \A r \in BagToSet(returned) : r.before = b /\ r.after = a

StatusWorker(w) ==
  \/ \E t \in Transitions, k \in 1..MaxCount :
       OneTransition(t[1], t[2]) /\ BeginClaimByStatus(w, t[1], t[2], k)
  \/ StatusStep(w)

NextStatus == \E w \in Workers : StatusWorker(w)

SpecStatus == InitStaged /\ [][NextStatus]_vars

\* The same, with every worker going on with the call it runs and calling
\* again when the call is over.
LiveStatus == SpecStatus /\ \A w \in Workers : WF_vars(StatusWorker(w))

\* ---------------------------------------------------------------- claims

\* Records of the bag of returned records that satisfy P.
ReturnedCount(P(_)) ==
  LET S == {r \in BagToSet(returned) : P(r)}
      RECURSIVE Sum(_)
      Sum(T) == IF T = {} THEN 0
                ELSE LET r == CHOOSE x \in T : TRUE
                     IN CopiesIn(r, returned) + Sum(T \ {r})
  IN Sum(S)

\* C1: with workers calling ClaimBatch(b, a, k) for one transition b # a, no
\* height is returned by two successful ClaimBatch calls.
C1_NoHeightReturnedTwice ==
  \A r \in BagToSet(returned) : r.op = "status" => CopiesIn(r, returned) = 1

\* A worker has selected rows in a ClaimBatch call during which another call
\* for the same transition returned a different row.
C1_Witness ==
  \E w \in Workers, r \in BagToSet(returned) :
    /\ call[w].op = "status" /\ call[w].pc = "commit"
    /\ r.op = "status" /\ r.before = call[w].before /\ r.after = call[w].after
    /\ r.height \notin call[w].prior

\* C3: the records returned by ClaimBatch(Published, Received, k) calls are
\* rows that were Published and not deleted at the start, and there are at
\* most as many of them as there were such rows.
C3_RowCountConservation ==
  LET published == {h \in Heights : table0[h].present /\ ~table0[h].deleted
                                    /\ table0[h].status = StatusPublished}
      IsPR(r) == r.op = "status" /\ r.before = StatusPublished
                                /\ r.after = StatusReceived
  IN /\ \A r \in BagToSet(returned) : IsPR(r) => r.height \in published
     /\ ReturnedCount(IsPR) <= Cardinality(published)

\* Every height held a Published row at the start and every one of them
\* has been returned.
C3_Witness ==
  /\ \A h \in Heights :
       BagIn([op |-> "status", before |-> StatusPublished,
              after |-> StatusReceived, height |-> h], returned)
  /\ \A h \in Heights : Matches(table0[h], StatusPublished)

\* C5: a ClaimBatch(b, a, maxCount) whose select completes has selected the
\* min(maxCount, n) lowest heights of the n non-deleted rows with status b,
\* in ascending order.
C5_LowestHeightsInOrder ==
  [][\A w \in Workers :
       (call[w].op = "status" /\ call[w].pc = "rows" /\ call'[w].pc # "rows")
       => LET cand == {h \in Heights : table[h].present /\ ~table[h].deleted
                                       /\ table[h].status = call[w].before}
              n == Cardinality(cand)
              m == IF call[w].count < n THEN call[w].count ELSE n
              got == call'[w].sel
          IN /\ Len(got) = m
             /\ \A i \in 1..m :
                  /\ got[i].height \in cand
                  /\ Cardinality({h \in cand : h < got[i].height}) = i - 1]_vars

\* A call with maxCount 2 has selected rows 1 and 2 and left a third row
\* with the same status.
C5_Witness ==
  \E w \in Workers :
    /\ call[w].op = "status" /\ call[w].pc = "exec" /\ call[w].count = 2
    /\ Len(call[w].sel) = 2
    /\ \E h \in Heights :
         /\ Matches(table[h], call[w].before)
         /\ \A i \in 1..2 : call[w].sel[i].height < h

\* A row that ClaimBatch(b, a, _) calls are being made for and that has
\* status b.
Claimable(t, h) ==
  /\ Matches(table[h], t[1])
  /\ \/ \E w \in Workers : call[w].op = "status" /\ call[w].before = t[1]
                                                 /\ call[w].after = t[2]
     \/ \E r \in BagToSet(returned) : r.before = t[1] /\ r.after = t[2]

\* C4: when workers keep calling ClaimBatch(b, a, k), k >= 1, every
\* non-deleted row with status b is eventually returned by one of the calls:
\* time and again no such row is left that no call has returned.
C4_EveryRowEventuallyReturned ==
  []<>(\A t \in Transitions, h \in Heights :
         Claimable(t, h) =>
           BagIn([op |-> "status", before |-> t[1], after |-> t[2],
                  height |-> h], returned))

\* Three rows had status b, every one has been returned and none has
\* status b any more.
C4_Witness ==
  \E t \in Transitions :
    /\ \A h \in Heights :
         /\ Matches(table0[h], t[1])
         /\ ~Matches(table[h], t[1])
         /\ BagIn([op |-> "status", before |-> t[1], after |-> t[2],
                   height |-> h], returned)
    /\ \A w \in Workers : call[w].pc = "idle"

\* C2: for a height and a transition b -> a, at most one successful call,
\* ClaimByHeight or ClaimBatch, returns the record.
C2_AtMostOneClaimer ==
  \A h \in Heights, t \in Transitions :
    LET Is(r) == r.height = h /\ r.before = t[1] /\ r.after = t[2]
    IN ReturnedCount(Is) <= 1

\* No row matches the select of worker w's call.
NoMatch(w) ==
  LET c == call[w]
      Has(h) == table[h].present /\ ~table[h].deleted
                /\ table[h].status = c.before
  IN IF c.op = "status" THEN \A h \in Heights : ~Has(h) ELSE ~Has(c.height)

\* C6: a claim call whose select completes when no non-deleted row (of
\* its height, for ClaimByHeight) has status beforeStatus fails with
\* NotFound, and rolling it back leaves the table as it was.
C6_EmptyClaimNotFound ==
  [][\A w \in Workers :
       /\ (call[w].pc = "rows" /\ call'[w].pc # "rows" /\ NoMatch(w))
          => /\ call'[w].pc = "rollback"
             /\ call'[w].err = "DbErrNotFound"
             /\ table' = table
       /\ (call[w].pc = "rollback" /\ call[w].err = "DbErrNotFound"
             /\ call'[w].pc = "idle")
          => /\ table' = table
             /\ returned' = returned
             /\ \A h \in Heights : lock'[h] # w]_vars

\* A ClaimBatch and a ClaimByHeight call that found no row are about to
\* roll back.
C6_Witness ==
  \E w \in Workers, v \in Workers :
    /\ call[w].op = "status" /\ call[v].op = "height"
    /\ call[w].pc = "rollback" /\ call[v].pc = "rollback"
    /\ call[w].err = "DbErrNotFound" /\ call[v].err = "DbErrNotFound"
    /\ NoMatch(w) /\ NoMatch(v)

\* A step of the select or of the update of the call failed.
Failed(c) == c.rowsErr \/ c.err \in {"DbErr", "raw"}

\* C7: a claim call in which a step of the select or of the update failed
\* changes no row and hands no records to its caller.
C7_FailedCallChangesNothing ==
  [][\A w \in Workers :
       (Failed(call[w]) /\ call'[w].pc = "idle")
       => table' = table /\ returned' = returned]_vars

\* C8: the records a successful claim call returns carry beforeStatus, and
\* once the call has committed the rows have afterStatus.
C8_ReturnedStatusIsBefore ==
  [][\A w \in Workers :
       (call[w].pc = "commit" /\ call'[w].pc = "idle")
       => \A i \in 1..Len(call[w].sel) :
            /\ call[w].sel[i].status = call[w].before
            /\ table'[call[w].sel[i].height].status = call[w].after]_vars

\* Both operations have returned a record whose row now has afterStatus.
C8_Witness ==
  \E r \in BagToSet(returned), q \in BagToSet(returned) :
    /\ r.op = "status" /\ q.op = "height"
    /\ table[r.height].status = r.after
    /\ table[q.height].status = q.after

\* C9: the status of a record never decreases.
C9_StatusNeverDecreases ==
  [][\A h \in Heights : table'[h].status >= table[h].status]_vars

\* C10: a claim call for b -> a that begins after a ClaimBatch(b, a, _) has
\* returned height h does not select h.
C10_CommittedClaimIsSeen ==
  \A w \in Workers :
    \A i \in 1..Len(call[w].sel) : call[w].sel[i].height \notin call[w].prior


\* ------------------------------------- statements of the other operations

\* The records callers pass to CreateBatchWitness: any height, payload and
\* status (the status is not validated).
Records == [height : Heights, payload : Payloads, status : Statuses]

\* height BIGINT NOT NULL UNIQUE: the index covers every row of the table,
\* soft-deleted rows included.
\* (UniqueViolationNone: the table without the UNIQUE constraint.)
UniqueViolationNone(h) == FALSE
UniqueViolation(h) == table[h].present

\* INSERT INTO witness (height, witness_data, status, created_at, updated_at):
\* the row as stored, deleted_at NULL.
\* (InsertedRowNoData: the insert without witness_data.)
InsertedRowNoData(r) ==
  [present |-> TRUE, deleted |-> FALSE, status |-> r.status,
   payload |-> 0, extra |-> 0]
InsertedRow(r) ==
  [present |-> TRUE, deleted |-> FALSE, status |-> r.status,
   payload |-> r.payload, extra |-> 0]

\* The table once the store has accepted the INSERT of r.
Inserted(r) ==
  [table EXCEPT ![r.height] =
     IF @.present THEN [@ EXCEPT !.extra = @ + 1] ELSE InsertedRow(r)]

\* UPDATE witness SET status = ?, updated_at = NOW() WHERE height = ?
\* (no deleted_at condition; no row, no change).
\* (UpdatedNext: the statement with the stages numbered from 1.)
UpdatedNext(h, s) ==
  [table EXCEPT ![h] = IF @.present THEN [@ EXCEPT !.status = s + 1] ELSE @]
Updated(h, s) ==
  [table EXCEPT ![h] = IF @.present THEN [@ EXCEPT !.status = s] ELSE @]

\* SELECT ... WHERE height = ? AND deleted_at IS NULL LIMIT 1, and row.Scan:
\* sql.ErrNoRows becomes DbErrNotFound.
Found(h) ==
  [err |-> "nil",
   rec |-> [height |-> h, payload |-> table[h].payload,
            status |-> table[h].status]]
SelectedByHeight(h) ==
  IF table[h].present /\ ~table[h].deleted THEN Found(h)
  ELSE [err |-> "DbErrNotFound", rec |-> <<>>]

\* SELECT height ... WHERE status = ? AND deleted_at IS NULL ORDER BY height:
\* a read of the committed rows.
\* (HeightsByStatusDirty: the read at isolation level READ UNCOMMITTED.)
HeightsByStatusDirty(s) ==
  {h \in Heights :
     Matches([table[h] EXCEPT !.status =
                IF pend[h] # NoStatus THEN pend[h] ELSE @], s)}
HeightsByStatus(s) == {h \in Heights : Matches(table[h], s)}

\* The i-th query of GetRowCounts: SELECT COUNT(*) ... WHERE deleted_at IS
\* NULL, then the same with status = StatusPublished, StatusReceived,
\* StatusFinished.
\* (CountQueryNoDeletedFilter: the counts without the deleted_at condition.)
CountQueryNoDeletedFilter(i) ==
  IF i = 1 THEN Cardinality({h \in Heights : table[h].present})
  ELSE Cardinality({h \in Heights : MatchesNoDeletedFilter(table[h], i - 2)})
CountQuery(i) ==
  IF i = 1
    THEN Cardinality({h \in Heights : table[h].present /\ ~table[h].deleted})
    ELSE Cardinality(HeightsByStatus(StatusPublished + (i - 2)))

\* ----------------------------------------- actions of the other operations

\* CreateBatchWitness: an empty list returns nil at once; the list is read
\* record by record as the loop goes.
CreateBatchWitness(w, n) ==
  /\ call[w].pc = "idle"
  /\ call' = [call EXCEPT ![w] =
       [IdleCall EXCEPT !.op = "create", !.left = n,
                        !.pc = IF n = 0 THEN "done" ELSE "insert"]]
  /\ UNCHANGED <<table, table0, lock, pend, returned>>

\* m.db.Exec(INSERT ...) for the next record r of the list, in autocommit:
\* the duplicate-key check waits for the lock of an existing row; on an
\* error the loop returns err as it is, and the earlier inserts stay.
\* (InsertRecordInTransaction: the loop in one transaction, rolled back on
\* the error.)
InsertRecordInTransaction(w, r) ==
  LET c == call[w]
  IN /\ c.pc = "insert"
     /\ CanLock(w, r.height)
     /\ IF UniqueViolation(r.height)
          THEN /\ call' = [call EXCEPT ![w].pc = "done", ![w].err = "raw",
                                       ![w].height = r.height]
               /\ table' = [h \in Heights |->
                              IF h \in c.ins THEN AbsentRow ELSE table[h]]
          ELSE /\ table' = Inserted(r)
               /\ call' = [call EXCEPT ![w].ins = c.ins \cup {r.height},
                                       ![w].left = c.left - 1,
                                       ![w].pc = IF c.left = 1 THEN "done"
                                                 ELSE "insert"]
     /\ UNCHANGED <<table0, lock, pend, returned>>
InsertRecord(w, r) ==
  LET c == call[w]
  IN /\ c.pc = "insert"
     /\ CanLock(w, r.height)
     /\ IF UniqueViolation(r.height)
          THEN /\ call' = [call EXCEPT ![w].pc = "done", ![w].err = "raw",
                                       ![w].height = r.height]
               /\ UNCHANGED table
          ELSE /\ table' = Inserted(r)
               /\ call' = [call EXCEPT ![w].ins = c.ins \cup {r.height},
                                       ![w].left = c.left - 1,
                                       ![w].pc = IF c.left = 1 THEN "done"
                                                 ELSE "insert"]
     /\ UNCHANGED <<table0, lock, pend, returned>>

\* UpdateBatchWitnessStatus: one UPDATE in autocommit, which waits for the
\* lock of the row; the status is not validated, rows affected are not read.
\* (UpdateBatchWitnessStatusNoWait: the UPDATE not held up by row locks.)
UpdateBatchWitnessStatusNoWait(w, h, s) ==
  /\ call[w].pc = "idle"
  /\ table' = Updated(h, s)
  /\ call' = [call EXCEPT ![w] =
       [IdleCall EXCEPT !.op = "update", !.pc = "done", !.after = s]]
  /\ UNCHANGED <<table0, lock, pend, returned>>
UpdateBatchWitnessStatus(w, h, s) ==
  /\ call[w].pc = "idle"
  /\ CanLock(w, h)
  /\ table' = Updated(h, s)
  /\ call' = [call EXCEPT ![w] =
       [IdleCall EXCEPT !.op = "update", !.pc = "done", !.after = s]]
  /\ UNCHANGED <<table0, lock, pend, returned>>

\* GetBatchWitnessByHeight: one plain read of the committed row.
GetBatchWitnessByHeight(w, h) ==
  /\ call[w].pc = "idle"
  /\ call' = [call EXCEPT ![w] =
       [IdleCall EXCEPT !.op = "get", !.pc = "done", !.height = h,
                        !.err = SelectedByHeight(h).err,
                        !.out = SelectedByHeight(h).rec]]
  /\ UNCHANGED <<table, table0, lock, pend, returned>>

\* GetRowCounts: the first of its four queries.
GetRowCounts(w) ==
  /\ call[w].pc = "idle"
  /\ call' = [call EXCEPT ![w] =
       [IdleCall EXCEPT !.op = "counts", !.pc = "count",
                        !.out = <<CountQuery(1)>>, !.snap = table]]
  /\ UNCHANGED <<table, table0, lock, pend, returned>>

\* The next query of GetRowCounts, each a read of its own.
NextCount(w) ==
  LET c == call[w]
      i == Len(c.out) + 1
  IN /\ c.pc = "count"
     /\ call' = [call EXCEPT ![w].out = Append(c.out, CountQuery(i)),
                             ![w].dirty = c.dirty \/ table # c.snap,
                             ![w].pc = IF i = 4 THEN "done" ELSE "count"]
     /\ UNCHANGED <<table, table0, lock, pend, returned>>

\* The call returns err and out to its caller.
Return(w) ==
  /\ call[w].pc = "done"
  /\ call' = [call EXCEPT ![w] = IdleCall]
  /\ UNCHANGED <<table, table0, lock, pend, returned>>


\* --------------------------------------- specifications of the queue

\* The producer's side: workers enqueue lists of any records and look rows
\* up by height.
NextEnqueue ==
  \E w \in Workers :
    \/ \E n \in 0..MaxList : CreateBatchWitness(w, n)
    \/ \E r \in Records : InsertRecord(w, r)
    \/ \E h \in Heights : GetBatchWitnessByHeight(w, h)
    \/ Return(w)

SpecEnqueue == Init /\ [][NextEnqueue]_vars

\* The four operations that change the table, called by any worker at any
\* time with any status arguments, on the heights up to MaxQueueHeight.
QueueHeights == 1..MaxQueueHeight
QueueRecords == {r \in Records : r.height \in QueueHeights /\ r.payload = 1}

InitQueue ==
  /\ Init
  /\ \A h \in Heights \ QueueHeights : table[h] = AbsentRow

NextQueue ==
  \E w \in Workers :
    \/ \E n \in 0..MaxList : CreateBatchWitness(w, n)
    \/ \E r \in QueueRecords : InsertRecord(w, r)
    \/ \E h \in QueueHeights, s \in Statuses : UpdateBatchWitnessStatus(w, h, s)
    \/ \E t \in Pipeline, k \in 1..MaxCount :
         Budget(MaxQueueReturned) /\ BeginClaimByStatus(w, t[1], t[2], k)
    \/ \E h \in QueueHeights, t \in Pipeline :
         Budget(MaxQueueReturned) /\ BeginClaimByHeight(w, h, t[1], t[2])
    \/ Step(w)
    \/ Return(w)

SpecQueue == InitQueue /\ [][NextQueue]_vars


\* ------------------------------------------------- claims on the queue

\* A non-deleted row.
Active(r) == r.present /\ ~r.deleted

\* C11: an Enqueue whose record has the height of an existing active row
\* fails with the Conflict error kind, and leaves that row's payload and
\* status as they were.
C11_DuplicateFailsWithConflict ==
  [][\A w \in Workers, r \in Records :
       (Active(table[r.height]) /\ InsertRecord(w, r))
         => /\ call'[w].pc = "done" /\ call'[w].err = "Conflict"
            /\ table'[r.height] = table[r.height]]_vars


\* The non-deleted rows of the table that have height h.
ActiveRowsAt(h) == (IF Active(table[h]) THEN 1 ELSE 0) + table[h].extra

\* C12: whatever the interleaving of Enqueue, ClaimBatch, ClaimByHeight and
\* UpdateStatus calls, no two non-deleted rows have the same height.
C12_HeightUnique == \A h \in Heights : ActiveRowsAt(h) <= 1

\* Two workers enqueued the same height at the same time: one inserted the
\* row, the other was refused.
C12_Witness ==
  \E w, v \in Workers :
    /\ call[w].op = "create" /\ call[w].pc = "done" /\ call[w].err # "nil"
    /\ call[v].op = "create" /\ call[w].height \in call[v].ins


\* C13: once Enqueue has inserted a record {h, p, s} at a height h that had
\* no row, GetByHeight(h) returns height h, payload p and status s; and a
\* GetByHeight of a height with no non-deleted row fails with NotFound.
C13_RoundTrip ==
  [][\A w \in Workers :
       /\ (call[w].pc = "insert" /\ call'[w].ins # call[w].ins)
            => \A r \in Records :
                 (~table[r.height].present /\ InsertRecord(w, r))
                   => SelectedByHeight(r.height)' =
                        [err |-> "nil",
                         rec |-> [height |-> r.height, payload |-> r.payload,
                                  status |-> r.status]]
       /\ (call[w].pc = "idle" /\ call'[w].op = "get")
            => \A h \in Heights :
                 (~Active(table[h]) /\ GetBatchWitnessByHeight(w, h))
                   => /\ call'[w].err = "DbErrNotFound"
                      /\ call'[w].out = <<>>]_vars

\* A GetByHeight has returned a record an Enqueue inserted, while another
\* has failed on a soft-deleted row.
C13_Witness ==
  \E w, v \in Workers :
    /\ call[w].op = "get" /\ call[w].pc = "done" /\ call[w].err = "nil"
    /\ call[w].out.payload = MaxPayload /\ call[w].out.status = BadStatus
    /\ call[v].op = "get" /\ call[v].pc = "done"
    /\ call[v].err = "DbErrNotFound" /\ table[call[v].height].deleted


\* The producer enqueues Published records, workers claim along the
\* pipeline, and anyone reads the stage counts.
PublishedRecords ==
  {r \in Records : r.status = StatusPublished /\ r.payload = 1}

NextCounts ==
  \E w \in Workers :
    \/ \E n \in 0..MaxList : CreateBatchWitness(w, n)
    \/ \E r \in PublishedRecords : InsertRecord(w, r)
    \/ \E t \in Pipeline, k \in 1..MaxCount :
         Budget(MaxQueueReturned) /\ BeginClaimByStatus(w, t[1], t[2], k)
    \/ \E h \in Heights, t \in Pipeline :
         Budget(MaxQueueReturned) /\ BeginClaimByHeight(w, h, t[1], t[2])
    \/ Step(w)
    \/ GetRowCounts(w)
    \/ NextCount(w)
    \/ Return(w)

SpecCounts == Init /\ [][NextCounts]_vars

\* The non-deleted rows of table t, and those of them at stage s.
ActiveIn(t) == {h \in Heights : Active(t[h])}
AtStage(t, s) == {h \in ActiveIn(t) : t[h].status = s}

\* C14: a GetStageCounts during which the table did not change returns the
\* number of non-deleted rows and the numbers of non-deleted rows at
\* Published, Received and Finished, and the three add up to the first.
C14_StageCounts ==
  \A w \in Workers :
    (call[w].op = "counts" /\ call[w].pc = "done" /\ ~call[w].dirty)
      => /\ call[w].err = "nil"
         /\ call[w].out =
              <<Cardinality(ActiveIn(call[w].snap)),
                Cardinality(AtStage(call[w].snap, StatusPublished)),
                Cardinality(AtStage(call[w].snap, StatusReceived)),
                Cardinality(AtStage(call[w].snap, StatusFinished))>>
         /\ call[w].out[2] + call[w].out[3] + call[w].out[4] = call[w].out[1]

\* Two rows, one of them inserted by an Enqueue, both moved to Received by
\* a claim, and counted with a soft-deleted row left out.
C14_Witness ==
  \E w \in Workers :
    /\ call[w].op = "counts" /\ call[w].pc = "done" /\ ~call[w].dirty
    /\ call[w].out = <<2, 0, 2, 0>>
    /\ \E h \in Heights : table[h].deleted
    /\ \E h \in Heights : Active(table[h]) /\ ~table0[h].present
    /\ BagCardinality(returned) = 2


\* C15: every error a queue operation returns is of one of the kinds
\* NotFound, Conflict and StorageFailure (DbErrNotFound, or the value
\* ConvertMysqlErrToDbErr made of a store error): no error of the store
\* reaches the caller as it is.
C15_ErrorsAreTranslated ==
  \A w \in Workers :
    call[w].pc \in {"rollback", "done"}
      => call[w].err \in {"nil", "DbErrNotFound", "DbErr"}


\* C16: a soft-deleted row is as good as absent: no operation changes it,
\* and an Enqueue of its height is not refused.
C16_SoftDeletedRowsAreAbsent ==
  [][/\ \A h \in Heights :
          (table[h].deleted /\ table'[h].deleted) => table'[h] = table[h]
     /\ \A w \in Workers, r \in Records :
          (table[r.height].deleted /\ InsertRecord(w, r))
            => call'[w].err = "nil"]_vars


\* C17: whatever status arguments Enqueue, ClaimBatch, ClaimByHeight and
\* UpdateStatus are called with, the status of every row is one of
\* Published, Received, Finished.
C17_StatusIsStage ==
  \A h \in Heights : table[h].present => table[h].status \in Stages

\* C17, amended: a row gets a status that is no stage only from an Enqueue
\* or an UpdateStatus that was given this status; with stage arguments
\* only, every status is a stage.
C17_StatusIsStageOrGiven ==
  [][\A h \in Heights :
       (/\ table'[h].present /\ table'[h].status \notin Stages
        /\ (table[h].present => table[h].status # table'[h].status))
         => \E w \in Workers :
              \/ /\ call[w].pc = "idle" /\ call'[w].op = "update"
                 /\ call'[w].after = table'[h].status
              \/ \E r \in Records :
                   /\ r.height = h /\ r.status = table'[h].status
                   /\ InsertRecord(w, r)]_vars

\* An UpdateStatus called with a status that is no stage has stored it in a
\* row an Enqueue inserted.
C17_Witness ==
  \E w, v \in Workers, h \in Heights :
    /\ call[w].op = "update" /\ call[w].pc = "done"
    /\ call[w].after = BadStatus
    /\ table[h].present /\ table[h].status = BadStatus
    /\ call[v].op = "create" /\ h \in call[v].ins


\* Claim calls go on once begun: every worker takes the next step of its
\* call when the step is possible.
LiveFwd == SpecFwd /\ \A w \in Workers : WF_vars(Step(w))

\* The row whose lock the next statement of w's claim call needs (0: none),
\* and the worker that holds this lock and keeps w waiting (0: none).
NeededRow(w) ==
  LET c == call[w]
  IN IF c.pc = "rows" /\ c.op = "status" THEN NextRow(w, c.before, c.cursor)
     ELSE IF c.pc = "exec" THEN c.sel[c.next].height
     ELSE 0
WaitsFor(w) ==
  LET h == NeededRow(w)
  IN IF h # 0 /\ lock[h] \notin {0, w} THEN lock[h] ELSE 0

\* The worker at the end of n waits, starting from w.
RECURSIVE WaitChain(_, _)
WaitChain(w, n) ==
  IF n = 0 THEN w
  ELSE LET v == WaitChain(w, n - 1)
       IN IF v = 0 THEN 0 ELSE WaitsFor(v)

\* C18: claim transactions never wait for each other in a circle, and every
\* claim call that has begun commits or rolls back.
C18_NoDeadlock ==
  /\ [](\A w \in Workers, n \in 1..NWorkers : WaitChain(w, n) # w)
  /\ \A w \in Workers : (call[w].pc # "idle") ~> (call[w].pc = "idle")

\* A ClaimBatch that holds the lock of one row waits for the lock of a
\* higher row, which another claim transaction holds.
C18_Witness ==
  \E w \in Workers :
    /\ call[w].op = "status" /\ WaitsFor(w) # 0
    /\ \E h \in Heights : lock[h] = w /\ h < NeededRow(w)


\* C19: what a read outside the claim transactions returns changes only
\* when a claim commits, and then every row of that claim is at afterStatus
\* at once: no read sees a claim half done, or a status that a claim wrote
\* and rolled back.
C19_ReadsSeeCommittedClaims ==
  [][(\/ \E s \in Stages : HeightsByStatus(s)' # HeightsByStatus(s)
      \/ \E h \in Heights : SelectedByHeight(h)' # SelectedByHeight(h))
       => \E w \in Workers, a \in Stages :
            /\ call[w].pc = "commit" /\ call'[w].pc = "idle"
            /\ call[w].after = a
            /\ \A i \in 1..Len(call[w].sel) :
                 call[w].sel[i].height \in HeightsByStatus(a)']_vars

\* A ClaimBatch of two rows has updated the first, failed on the second and
\* is about to roll back.
C19_Witness ==
  \E w \in Workers, h \in Heights :
    /\ call[w].op = "status" /\ call[w].pc = "rollback" /\ call[w].count > 1
    /\ lock[h] = w /\ pend[h] = call[w].after


\* C20: Enqueue inserts its records one at a time; when an insert fails it
\* stops and returns the error, the rows it has inserted stay and no later
\* record is inserted; with an empty list it succeeds and changes nothing.
C20_EnqueueNotAtomic ==
  /\ [](\A w \in Workers :
          call[w].op = "create" => \A h \in call[w].ins : Active(table[h]))
  /\ [][\A w \in Workers :
          /\ (call[w].pc = "idle" /\ call'[w].op = "create"
                /\ call'[w].left = 0)
               => /\ call'[w].pc = "done" /\ call'[w].err = "nil"
                  /\ table' = table
          /\ (call[w].pc = "insert" /\ call'[w] # call[w])
               => IF call'[w].err # "nil"
                    THEN /\ call'[w].pc = "done" /\ table' = table
                         /\ call'[w].ins = call[w].ins
                         /\ call'[w].left = call[w].left
                    ELSE \E h \in Heights :
                           /\ ~table[h].present /\ Active(table'[h])
                           /\ \A g \in Heights \ {h} : table'[g] = table[g]
                           /\ call'[w].ins = call[w].ins \cup {h}
                           /\ call'[w].left = call[w].left - 1
                           /\ call'[w].pc =
                                IF call'[w].left = 0 THEN "done" ELSE "insert"
          /\ (call[w].op = "create" /\ call[w].pc = "done"
                /\ call'[w] # call[w])
               => table' = table /\ call'[w].pc = "idle"]_vars

\* An Enqueue of two records has inserted the first and failed on the
\* second.
C20_Witness ==
  \E w \in Workers :
    /\ call[w].op = "create" /\ call[w].pc = "done" /\ call[w].err # "nil"
    /\ call[w].ins # {} /\ call[w].left = 1
    /\ \A h \in call[w].ins : Active(table[h])


\* --------------------------------------------- failure of the commit

\* tx.Commit() returns an error, which the deferred function drops: the
\* store has rolled the transaction back, and the call returns its
\* witnesses with a nil error all the same.
CommitFail(w) ==
  /\ call[w].pc = "commit"
  /\ lock' = Released(w)
  /\ pend' = Discarded(w)
  /\ returned' = returned (+) Result(call[w])
  /\ call' = [call EXCEPT ![w] = IdleCall]
  /\ UNCHANGED <<table, table0>>

\* Workers call both claim operations along the pipeline, and the commit of
\* a claim transaction may fail.
NextCommitFault ==
  \E w \in Workers :
    \/ \E t \in Pipeline, k \in 1..MaxCount :
         Budget(MaxReturned) /\ BeginClaimByStatus(w, t[1], t[2], k)
    \/ \E h \in Heights, t \in Pipeline :
         Budget(MaxReturned) /\ BeginClaimByHeight(w, h, t[1], t[2])
    \/ Step(w)
    \/ CommitFail(w)

SpecCommitFault == Init /\ [][NextCommitFault]_vars

\* C21: when a claim call hands records to its caller, every returned row
\* is at afterStatus in the committed table, also when the commit can fail.
C21_SuccessMeansCommitted ==
  [][\A w \in Workers, a \in Stages :
       (call[w].pc = "commit" /\ call'[w].pc = "idle" /\ call[w].after = a
          /\ returned' # returned)
         => \A i \in 1..Len(call[w].sel) :
              table'[call[w].sel[i].height].status = a]_vars


\* C22: from the moment a ClaimBatch(b, a, k) transaction has locked a row
\* until it commits or rolls back, the committed status of the row is b,
\* whatever UpdateStatus calls run at the same time: the claim writes a only
\* over b.
C22_ClaimLocksFenceUpdateStatus ==
  \A w \in Workers, h \in Heights :
    (call[w].op = "status" /\ lock[h] = w)
      => table[h].status = call[w].before

\* A ClaimBatch has written afterStatus to a row it holds, next to an
\* UpdateStatus that has given another row the same beforeStatus.
C22_Witness ==
  \E w, v \in Workers, h, g \in Heights :
    /\ call[w].op = "status" /\ lock[h] = w /\ pend[h] = call[w].after
    /\ call[v].op = "update" /\ call[v].pc = "done"
    /\ call[v].after = call[w].before
    /\ g # h /\ Active(table[g]) /\ table[g].status = call[v].after
    /\ table0[g].status # table[g].status


\* The heights of the records a call is about to return.
SelectedHeights(c) == {c.sel[i].height : i \in 1..Len(c.sel)}

\* C23: a claim that succeeds changes the status of the rows it returns and
\* nothing else: every row keeps its height, payload and deleted_at, every
\* row not returned keeps its status, and the table has the rows it had.
C23_ClaimFrame ==
  [][\A w \in Workers :
       (call[w].pc = "commit" /\ call'[w].pc = "idle")
         => /\ \A h \in Heights :
                 IF h \in SelectedHeights(call[w])
                   THEN table'[h] = [table[h] EXCEPT !.status = table'[h].status]
                   ELSE table'[h] = table[h]
            /\ Cardinality({h \in Heights : table'[h].present})
                 = Cardinality({h \in Heights : table[h].present})]_vars

\* A claim has returned one row and moved it on, while another non-deleted
\* row of the status it asked for stays as it was.
C23_Witness ==
  \E r \in BagToSet(returned), g \in Heights :
    /\ table[r.height].status = r.after
    /\ g # r.height /\ Active(table[g]) /\ table[g].status = r.before
    /\ \A q \in BagToSet(returned) : q.height # g

====
